---- MODULE Spec2Model ----
(***************************************************************************)
(* Model of selfdrive/frogpilot/controls/lib/conditional_experimental_mode *)
(* (class ConditionalExperimentalMode).                                    *)
(*                                                                         *)
(* One update() call is one step.  Speeds are whole m/s, distances whole   *)
(* metres, the road curvature is a positive rational <<n, d>> = n/d (1/m). *)
(* Booleans fed to a MovingAverageCalculator count as 0/1, as in Python.   *)
(***************************************************************************)
EXTENDS Integers, Sequences, FiniteSets, TLC

VARIABLES
  store,                \* params_memory "CEStatus" (shared with other processes)
  status_value,         \* self.status_value
  curvature_mac,        \* self.curvature_mac  (window of samples, oldest first)
  stop_light_mac,       \* self.stop_light_mac
  curve_detected,       \* self.curve_detected
  experimental_mode,    \* self.experimental_mode
  stop_light_detected,  \* self.stop_light_detected
  slow_lead_detected,   \* self.slow_lead_detected
  THRESHOLD,            \* frogpilot_variables.THRESHOLD, in percent
  inp,                  \* the arguments (and planner fields) of the last update() call
  path,                 \* what the last step was
  quiet_run,            \* history: length of the current run of normal-path cycles
                        \* off the curve that began with curve_detected set
  twin                  \* a second controller fed the same arguments (SpecTwin)

vars == <<store, status_value, curvature_mac, stop_light_mac, curve_detected,
          experimental_mode, stop_light_detected, slow_lead_detected,
          THRESHOLD, inp, path, quiet_run, twin>>

\* the variables only the specifications SpecCurve and SpecTwin use
aux == <<quiet_run, twin>>

----------------------------------------------------------------------------
(* Bounds *)

\* capacity of a MovingAverageCalculator window
WindowSize == 3

\* THRESHOLD is imported from frogpilot_variables (line 4): a fraction in
\* (0,1], here 0.6, written in percent
Thresholds == {60}

\* status codes other processes put in the store: 0 and the override codes
ExternalCodes == 0 .. 6

----------------------------------------------------------------------------
(* MovingAverageCalculator *)

RECURSIVE mac_sum(_)
mac_sum(data) ==
  IF data = <<>> THEN 0
  ELSE (IF Head(data) THEN 1 ELSE 0) + mac_sum(Tail(data))

mac_empty == <<>>

add_data(data, value) ==
  IF Len(data) = WindowSize THEN Append(Tail(data), value)
  ELSE Append(data, value)

\* the rolling average as the rational <<numerator, denominator>>
get_moving_average(data) == <<mac_sum(data), WindowSize>>

reset_data(data) == mac_empty

\* average >= THRESHOLD, with THRESHOLD = th / 100
at_least_threshold(avg, th) == 100 * avg[1] >= th * avg[2]

----------------------------------------------------------------------------
(* curve_detection *)

\* (k / road_curvature)**0.5 < v_ego, with k = kn / kd and v_ego >= 0
sqrt_bound_below(kn, kd, curvature, v_ego) ==
  /\ v_ego > 0
  /\ kn * curvature[2] < kd * curvature[1] * v_ego * v_ego

\* a mutant of curve_sample: the looser bound counts without the flag
curve_sample_no_hysteresis(i, cd) ==
  \/ sqrt_bound_below(1, 1, i.road_curvature, i.v_ego)
  \/ sqrt_bound_below(9, 10, i.road_curvature, i.v_ego)

\* lines 75-77: the sample fed to curvature_mac
curve_sample(i, cd) ==
  LET detected == sqrt_bound_below(1, 1, i.road_curvature, i.v_ego)
      active   == sqrt_bound_below(9, 10, i.road_curvature, i.v_ego) /\ cd
  IN  detected \/ active

\* a mutant of curve_detection: the flag, once set, is never withdrawn
curve_detection_latched(i, mac, cd, th) ==
  LET data == add_data(mac, curve_sample(i, cd))
  IN  [mac |-> data,
       curve_detected |-> cd \/ at_least_threshold(get_moving_average(data), th)]

\* a mutant of curve_detection: the average is taken before the sample is added
curve_detection_stale(i, mac, cd, th) ==
  LET data == add_data(mac, curve_sample(i, cd))
  IN  [mac |-> data,
       curve_detected |-> at_least_threshold(get_moving_average(mac), th)]

curve_detection(i, mac, cd, th) ==
  LET data == add_data(mac, curve_sample(i, cd))
  IN  [mac |-> data,
       curve_detected |-> at_least_threshold(get_moving_average(data), th)]

----------------------------------------------------------------------------
(* slow_lead *)

\* a mutant of slow_lead: the tracking test of line 82 is dropped
slow_lead_ignores_tracking(i) ==
  \/ i.slower_lead /\ i.conditional_slower_lead
  \/ i.conditional_stopped_lead /\ i.v_lead < 1

slow_lead(i) ==
  IF i.tracking_lead
  THEN LET slower_lead  == i.slower_lead /\ i.conditional_slower_lead
           stopped_lead == i.conditional_stopped_lead /\ i.v_lead < 1
       IN  slower_lead \/ stopped_lead
  ELSE FALSE

----------------------------------------------------------------------------
(* stop_sign_and_light *)

\* a mutant of stop_gate: the curve flag does not close the gate
stop_gate_lead_only(cd, tracking_lead) == ~tracking_lead

stop_gate(cd, tracking_lead) == ~(cd \/ tracking_lead)

stop_sample(i) ==
  LET model_stopping == i.model_length < i.v_ego * i.conditional_model_stop_time
  IN  i.model_stopped \/ model_stopping

stop_sign_and_light(i, mac, cd, th) ==
  IF stop_gate(cd, i.tracking_lead)
  THEN LET data == add_data(mac, stop_sample(i))
       IN  [mac |-> data,
            stop_light_detected |-> at_least_threshold(get_moving_average(data), th)]
  ELSE [mac |-> reset_data(mac), stop_light_detected |-> FALSE]

----------------------------------------------------------------------------
(* check_conditions: the decision and self.status_value after the call *)

maneuver_code_turn_first(i) == IF i.approachingTurn THEN 11 ELSE 10

\* line 48: the code of the navigation rule
maneuver_code(i) == IF i.approachingIntersection THEN 10 ELSE 11

\* the seven "if <condition>: self.status_value = <code>" blocks, top to bottom
rule_chain(i, cd, sld, sl) ==
  LET following_lead == i.following_lead
      below_speed == i.conditional_limit > i.v_ego /\ i.v_ego >= 1 /\ ~following_lead
      below_speed_with_lead ==
        i.conditional_limit_lead > i.v_ego /\ i.v_ego >= 1 /\ following_lead
      desired_lane == IF i.leftBlinker THEN i.lane_width_left ELSE i.lane_width_right
      lane_available ==
        \/ desired_lane >= i.lane_detection_width
        \/ ~i.conditional_signal_lane_detection
        \/ ~i.lane_detection
      approaching_maneuver ==
        i.navEnabled /\ (i.approachingIntersection \/ i.approachingTurn)
  IN
  << [cond |-> below_speed \/ below_speed_with_lead,
      code |-> IF following_lead THEN 7 ELSE 8],
     [cond |-> /\ i.v_ego < i.conditional_signal
               /\ (i.leftBlinker \/ i.rightBlinker)
               /\ ~lane_available,
      code |-> 9],
     [cond |-> /\ i.conditional_navigation
               /\ approaching_maneuver
               /\ (i.conditional_navigation_lead \/ ~following_lead),
      code |-> maneuver_code(i)],
     [cond |-> /\ i.conditional_curves
               /\ cd
               /\ (i.conditional_curves_lead \/ ~following_lead),
      code |-> 12],
     [cond |-> i.conditional_lead /\ sld,
      code |-> IF i.v_lead < 1 THEN 13 ELSE 14],
     [cond |-> i.conditional_model_stop_time # 0 /\ sl,
      code |-> IF ~i.forcing_stop THEN 15 ELSE 16],
     [cond |-> i.slc_experimental_mode,
      code |-> 17] >>

\* a mutant of first_match: no early return, the last block that matches wins
RECURSIVE last_match(_, _)
last_match(chain, sv) ==
  IF chain = <<>> THEN [result |-> FALSE, status_value |-> sv]
  ELSE LET rest == last_match(Tail(chain), sv)
       IN  IF rest.result THEN rest
           ELSE IF Head(chain).cond
                THEN [result |-> TRUE, status_value |-> Head(chain).code]
                ELSE rest

\* the blocks are tried in order; the first that matches assigns the code and
\* returns True, and when none does the code is left as it was
RECURSIVE first_match(_, _)
first_match(chain, sv) ==
  IF chain = <<>> THEN [result |-> FALSE, status_value |-> sv]
  ELSE IF Head(chain).cond
       THEN [result |-> TRUE, status_value |-> Head(chain).code]
       ELSE first_match(Tail(chain), sv)

check_conditions(i, cd, sld, sl, sv) == first_match(rule_chain(i, cd, sld, sl), sv)

----------------------------------------------------------------------------
(* update *)

OverrideCodes == 1 .. 6

\* a mutant of read_status: the store is read whatever the toggle says
read_status_ignores_toggle(i, st) == st

\* line 20-23: the status code the cycle works with
read_status(i, st) == IF i.experimental_mode_via_press THEN st ELSE 0

\* mutants of normal_path: a reserved code does not hold the cycle; a
\* standstill does not hold the cycle
normal_path_moving(sv, standstill) == ~standstill

normal_path_ignores_standstill(sv, standstill) == sv \notin OverrideCodes

\* line 25: the condition of the normal path
normal_path(sv, standstill) == sv \notin OverrideCodes /\ ~standstill

\* a mutant of status_written: the code is written whatever the decision
status_written_always(em, sv) == sv

\* line 28: the value put in the store
status_written(em, sv) == IF em THEN sv ELSE 0

\* mutants of held_experimental_mode: sticky also while moving; never sticky
held_sticky_always(sv, standstill, em) == sv \in {2, 4, 6} \/ em

held_never_sticky(sv, standstill, em) == sv \in {2, 4, 6}

\* line 30
held_experimental_mode(sv, standstill, em) ==
  sv \in {2, 4, 6} \/ (standstill /\ em)

\* a mutant of held_stop_light_detected: the flag is left as it was
held_stop_light_kept(sv, sl) == sl

\* line 31
held_stop_light_detected(sv, sl) == sl /\ sv \notin OverrideCodes

\* line 69-72: the three detectors, in the order the code runs them
update_conditions(i, cmac, cd, smac, th) ==
  LET c == curve_detection(i, cmac, cd, th)
      s == stop_sign_and_light(i, smac, c.curve_detected, th)
  IN  [curvature_mac |-> c.mac,
       curve_detected |-> c.curve_detected,
       slow_lead_detected |-> slow_lead(i),
       stop_light_mac |-> s.mac,
       stop_light_detected |-> s.stop_light_detected]

\* one update() call with arguments i
update(i) ==
  LET sv == read_status(i, store) IN
  /\ inp' = i
  /\ UNCHANGED THRESHOLD
  /\ IF normal_path(sv, i.standstill)
     THEN LET d == update_conditions(i, curvature_mac, curve_detected,
                                     stop_light_mac, THRESHOLD)
              r == check_conditions(i, d.curve_detected, d.slow_lead_detected,
                                    d.stop_light_detected, sv)
          IN  /\ curvature_mac' = d.curvature_mac
              /\ curve_detected' = d.curve_detected
              /\ slow_lead_detected' = d.slow_lead_detected
              /\ stop_light_mac' = d.stop_light_mac
              /\ stop_light_detected' = d.stop_light_detected
              /\ experimental_mode' = r.result
              /\ status_value' = r.status_value
              /\ store' = status_written(r.result, r.status_value)
              /\ path' = "normal"
     ELSE /\ status_value' = sv
          /\ experimental_mode' =
               held_experimental_mode(sv, i.standstill, experimental_mode)
          /\ stop_light_detected' = held_stop_light_detected(sv, stop_light_detected)
          /\ UNCHANGED <<store, curvature_mac, stop_light_mac, curve_detected,
                         slow_lead_detected>>
          /\ path' = "held"

----------------------------------------------------------------------------
(* Inputs of update(): carState, frogpilotNavigation, modelData, the planner's
   fields, v_ego, v_lead and frogpilot_toggles, as one record *)

Quiet ==
  [standstill |-> FALSE, leftBlinker |-> FALSE, rightBlinker |-> FALSE,
   approachingIntersection |-> FALSE, approachingTurn |-> FALSE,
   navEnabled |-> FALSE,
   tracking_lead |-> FALSE, following_lead |-> FALSE, slower_lead |-> FALSE,
   lane_width_left |-> 4, lane_width_right |-> 4,
   road_curvature |-> <<1, 400>>,
   model_length |-> 100, model_stopped |-> FALSE, forcing_stop |-> FALSE,
   slc_experimental_mode |-> FALSE,
   v_ego |-> 10, v_lead |-> 20,
   experimental_mode_via_press |-> TRUE,
   conditional_limit |-> 5, conditional_limit_lead |-> 8,
   conditional_signal |-> 12, lane_detection_width |-> 3,
   conditional_signal_lane_detection |-> TRUE, lane_detection |-> TRUE,
   conditional_navigation |-> TRUE, conditional_navigation_lead |-> TRUE,
   conditional_curves |-> TRUE, conditional_curves_lead |-> TRUE,
   conditional_lead |-> TRUE, conditional_slower_lead |-> TRUE,
   conditional_stopped_lead |-> TRUE,
   conditional_model_stop_time |-> 2]

\* <<v_ego, road_curvature>>: at 10 m/s on a straight (no bound met) and on
\* a curve (both bounds met)
Motions == {<<10, <<1, 400>>>>, <<10, <<1, 50>>>>}

\* <<tracking_lead, slower_lead, v_lead>>
Leads == {<<FALSE, FALSE, 20>>, <<TRUE, TRUE, 8>>}

\* <<model_stopped, model_length>>
Stops == {<<FALSE, 100>>, <<TRUE, 100>>}

Moving ==
  { [Quiet EXCEPT !.v_ego = m[1], !.road_curvature = m[2],
                  !.tracking_lead = l[1], !.following_lead = l[1],
                  !.slower_lead = l[2], !.v_lead = l[3],
                  !.model_stopped = s[1], !.model_length = s[2]]
    : m \in Motions, l \in Leads, s \in Stops }

\* the same with manual activation via press disabled
NoPress == { [Quiet EXCEPT !.experimental_mode_via_press = FALSE] }

Stopped ==
  { [Quiet EXCEPT !.experimental_mode_via_press = p,
                  !.standstill = TRUE, !.v_ego = 0]
    : p \in BOOLEAN }

Inputs == Moving \cup NoPress \cup Stopped

\* the state of a controller after __init__, with st in the store
Constructed(st) ==
  [store |-> st, curvature_mac |-> mac_empty, stop_light_mac |-> mac_empty,
   curve_detected |-> FALSE, experimental_mode |-> FALSE,
   stop_light_detected |-> FALSE, slow_lead_detected |-> FALSE]

\* no second controller
NoTwin == Constructed(0)

----------------------------------------------------------------------------
(* The controller in its control loop, with other processes writing the store *)

Init ==
  /\ store \in ExternalCodes
  /\ status_value = 0           \* not set before the first update()
  /\ curvature_mac = mac_empty
  /\ stop_light_mac = mac_empty
  /\ curve_detected = FALSE
  /\ experimental_mode = FALSE
  /\ stop_light_detected = FALSE
  /\ slow_lead_detected = FALSE \* not set before the first update()
  /\ THRESHOLD \in Thresholds
  /\ inp = Quiet
  /\ path = "init"
  /\ quiet_run = 0
  /\ twin = NoTwin

Update == \E i \in Inputs : update(i) /\ UNCHANGED aux

\* another process puts a code in the store between two cycles; the store is a
\* last-write-wins register, so one write between two cycles stands for any
\* number of them
ExternalWrite ==
  \E c \in ExternalCodes :
    /\ path # "extern"
    /\ c # store
    /\ store' = c
    /\ path' = "extern"
    /\ UNCHANGED <<status_value, curvature_mac, stop_light_mac, curve_detected,
                   experimental_mode, stop_light_detected, slow_lead_detected,
                   THRESHOLD, inp, aux>>

Next == Update \/ ExternalWrite

Spec == Init /\ [][Next]_vars

----------------------------------------------------------------------------
(* check_conditions on its own: lines 27-28 of update(), applied once to
   arguments and detector flags drawn from the sets below *)

EvalSpeeds == {0, 3, 6, 10, 15}

\* <<leftBlinker, rightBlinker, lane_width_left, lane_width_right,
\*   conditional_signal_lane_detection, lane_detection>>
EvalBlinkers ==
  {<<FALSE, FALSE, 2, 2, TRUE, TRUE>>, <<TRUE, FALSE, 2, 4, TRUE, TRUE>>,
   <<FALSE, TRUE, 4, 2, TRUE, TRUE>>,  <<TRUE, FALSE, 4, 2, TRUE, TRUE>>,
   <<TRUE, TRUE, 2, 4, TRUE, TRUE>>,   <<TRUE, FALSE, 2, 4, FALSE, TRUE>>,
   <<FALSE, TRUE, 4, 2, TRUE, FALSE>>}

\* <<navEnabled, approachingIntersection, approachingTurn,
\*   conditional_navigation, conditional_navigation_lead>>
EvalNavigation ==
  {<<TRUE, FALSE, FALSE, TRUE, TRUE>>, <<TRUE, TRUE, FALSE, TRUE, TRUE>>,
   <<TRUE, FALSE, TRUE, TRUE, TRUE>>,  <<TRUE, TRUE, TRUE, TRUE, TRUE>>,
   <<FALSE, TRUE, FALSE, TRUE, TRUE>>, <<TRUE, TRUE, FALSE, FALSE, TRUE>>,
   <<TRUE, FALSE, TRUE, TRUE, FALSE>>}

\* <<curve_detected, conditional_curves, conditional_curves_lead>>
EvalCurves ==
  {<<FALSE, TRUE, TRUE>>, <<TRUE, TRUE, TRUE>>, <<TRUE, FALSE, TRUE>>,
   <<TRUE, TRUE, FALSE>>}

\* <<slow_lead_detected, conditional_lead>>
EvalLeads == {<<FALSE, TRUE>>, <<TRUE, TRUE>>, <<TRUE, FALSE>>}

\* <<stop_light_detected, conditional_model_stop_time, forcing_stop>>
EvalStops ==
  {<<FALSE, 2, FALSE>>, <<TRUE, 2, FALSE>>, <<TRUE, 2, TRUE>>, <<TRUE, 0, FALSE>>}

\* the flags as update_conditions leaves them: stop_light_detected is true
\* only with curve_detected false and no lead tracked
EvalFlags ==
  { <<c, l, s>> \in EvalCurves \X EvalLeads \X EvalStops :
      s[1] => (~c[1] /\ ~l[1]) }

EvalInput(v, w, f, b, n, d, c) ==
  [Quiet EXCEPT !.v_ego = v, !.v_lead = w, !.following_lead = f,
                !.tracking_lead = f \/ d[2][1],
                !.leftBlinker = b[1], !.rightBlinker = b[2],
                !.lane_width_left = b[3], !.lane_width_right = b[4],
                !.conditional_signal_lane_detection = b[5],
                !.lane_detection = b[6],
                !.navEnabled = n[1], !.approachingIntersection = n[2],
                !.approachingTurn = n[3], !.conditional_navigation = n[4],
                !.conditional_navigation_lead = n[5],
                !.conditional_curves = d[1][2],
                !.conditional_curves_lead = d[1][3],
                !.conditional_lead = d[2][2],
                !.conditional_model_stop_time = d[3][2],
                !.forcing_stop = d[3][3],
                !.slc_experimental_mode = c]

InitEval ==
  /\ status_value \in {0, 12}   \* the code read: never an override code here
  /\ store = status_value
  /\ curvature_mac = mac_empty
  /\ stop_light_mac = mac_empty
  /\ \E v \in EvalSpeeds, w \in {0, 20}, f \in BOOLEAN, b \in EvalBlinkers,
        n \in EvalNavigation, d \in EvalFlags, c \in BOOLEAN :
       /\ inp = EvalInput(v, w, f, b, n, d, c)
       /\ curve_detected = d[1][1]
       /\ slow_lead_detected = d[2][1]
       /\ stop_light_detected = d[3][1]
  /\ experimental_mode \in BOOLEAN
  /\ THRESHOLD \in Thresholds
  /\ path = "init"
  /\ quiet_run = 0
  /\ twin = NoTwin

Evaluate ==
  /\ path = "init"
  /\ LET r == check_conditions(inp, curve_detected, slow_lead_detected,
                               stop_light_detected, status_value)
     IN  /\ experimental_mode' = r.result
         /\ status_value' = r.status_value
         /\ store' = status_written(r.result, r.status_value)
  /\ path' = "eval"
  /\ UNCHANGED <<curvature_mac, stop_light_mac, curve_detected,
                 slow_lead_detected, stop_light_detected, THRESHOLD, inp, aux>>

NextEval == Evaluate

SpecEval == InitEval /\ [][NextEval]_vars

----------------------------------------------------------------------------
(* Properties *)

\* the last step was an update() call
CycleRan(p) == p \in {"normal", "held"}

avg_meets(data, th) == 100 * mac_sum(data) >= th * WindowSize

\* The seven rules of the evaluator, stated on the inputs of the last call and
\* the detector flags
C1_Rule(k) ==
  CASE k = 1 -> /\ inp.v_ego >= 1
                /\ inp.v_ego < (IF inp.following_lead THEN inp.conditional_limit_lead
                                ELSE inp.conditional_limit)
    [] k = 2 -> /\ inp.v_ego < inp.conditional_signal
                /\ inp.leftBlinker \/ inp.rightBlinker
                /\ inp.lane_detection /\ inp.conditional_signal_lane_detection
                /\ (IF inp.leftBlinker THEN inp.lane_width_left
                    ELSE inp.lane_width_right) < inp.lane_detection_width
    [] k = 3 -> /\ inp.conditional_navigation /\ inp.navEnabled
                /\ inp.approachingIntersection \/ inp.approachingTurn
                /\ inp.conditional_navigation_lead \/ ~inp.following_lead
    [] k = 4 -> /\ inp.conditional_curves /\ curve_detected
                /\ inp.conditional_curves_lead \/ ~inp.following_lead
    [] k = 5 -> inp.conditional_lead /\ slow_lead_detected
    [] k = 6 -> inp.conditional_model_stop_time # 0 /\ stop_light_detected
    [] k = 7 -> inp.slc_experimental_mode

C1_Codes(k) ==
  CASE k = 1 -> {IF inp.following_lead THEN 7 ELSE 8}
    [] k = 2 -> {9}
    [] k = 3 -> {10, 11}
    [] k = 4 -> {12}
    [] k = 5 -> {13, 14}
    [] k = 6 -> {15, 16}
    [] k = 7 -> {17}

C1_Satisfied == {k \in 1 .. 7 : C1_Rule(k)}

C1_First == CHOOSE k \in C1_Satisfied : \A j \in C1_Satisfied : k <= j

\* C1: check_conditions returns true iff at least one of the seven rules is
\* satisfied, and the status code it assigns is a code of the first satisfied
\* rule in the order 1..7; when rules 1 and 3 both hold the code is 7 (lead
\* followed) or 8 (no lead followed), never 10 or 11.
C1_FirstRuleWins ==
  path = "eval" =>
    /\ experimental_mode = (C1_Satisfied # {})
    /\ C1_Satisfied # {} => status_value \in C1_Codes(C1_First)
    /\ (C1_Rule(1) /\ C1_Rule(3)) =>
         status_value = (IF inp.following_lead THEN 7 ELSE 8)

C1_Witness ==
  /\ path = "eval"
  /\ C1_Rule(1) /\ C1_Rule(3)
  /\ inp.following_lead
  /\ experimental_mode /\ status_value = 7

\* C2: after an update() cycle on the normal path (code read not in 1..6,
\* vehicle not at standstill) the store holds the code, in 7..17, of the first
\* satisfied rule when the decision is true, and 0 when it is false.
C2_StatusWritten ==
  path = "normal" =>
    /\ experimental_mode = (C1_Satisfied # {})
    /\ experimental_mode =>
         /\ store \in 7 .. 17
         /\ store \in C1_Codes(C1_First)
         /\ store = status_value
    /\ ~experimental_mode => store = 0

C2_Witness ==
  /\ path = "normal"
  /\ experimental_mode /\ store = 15
  /\ inp.conditional_model_stop_time # 0 /\ stop_light_detected

\* C3 as claimed: in a cycle that reads a reserved code 1..6 with the vehicle
\* not at standstill, the detectors are updated, the evaluator runs and its
\* code (or 0) is written over the status in the store.
C3_Original ==
  [][ ( /\ CycleRan(path')
        /\ read_status(inp', store) \in OverrideCodes
        /\ ~inp'.standstill )
      => ( /\ Len(curvature_mac') = (IF Len(curvature_mac) = WindowSize
                                     THEN WindowSize ELSE Len(curvature_mac) + 1)
           /\ store' = (IF experimental_mode' THEN status_value' ELSE 0)
           /\ store' \notin OverrideCodes ) ]_vars

\* C3 amended: in such a cycle normal evaluation does not proceed: no detector
\* is updated, the evaluator does not run, the store keeps the override code,
\* and the decision is set from the code read.
C3_Amended ==
  [][ ( /\ CycleRan(path')
        /\ read_status(inp', store) \in OverrideCodes
        /\ ~inp'.standstill )
      => ( /\ path' = "held"
           /\ curvature_mac' = curvature_mac
           /\ stop_light_mac' = stop_light_mac
           /\ curve_detected' = curve_detected
           /\ slow_lead_detected' = slow_lead_detected
           /\ store' = store
           /\ store' \in OverrideCodes
           /\ status_value' = store ) ]_vars

C3_Witness ==
  /\ path = "held"
  /\ ~inp.standstill
  /\ status_value \in OverrideCodes
  /\ store = status_value
  /\ curvature_mac # mac_empty

\* C4: after a cycle that reads a reserved code 1..6 with the vehicle not at
\* standstill, experimental_mode is true iff the code is 2, 4 or 6.
C4_OverrideDecides ==
  ( /\ path = "held"
    /\ status_value \in OverrideCodes
    /\ ~inp.standstill )
  => (experimental_mode <=> status_value \in {2, 4, 6})

\* an odd code read while moving on a detected curve with the curve rule
\* enabled: the decision is false although rule 4 would fire
C4_Witness ==
  /\ path = "held"
  /\ ~inp.standstill
  /\ status_value \in {1, 3, 5}
  /\ ~experimental_mode
  /\ curve_detected /\ inp.conditional_curves

\* C5: a cycle at standstill that reads a reserved code leaves
\* experimental_mode true if it was true before the cycle, for every code.
C5_StandstillSticky ==
  [][ ( /\ path' = "held"
        /\ inp'.standstill
        /\ status_value' \in OverrideCodes
        /\ experimental_mode )
      => experimental_mode' ]_vars

C5_Witness ==
  /\ path = "held"
  /\ inp.standstill
  /\ status_value \in {1, 3, 5}
  /\ experimental_mode

\* C6: after a cycle at standstill that reads a reserved code,
\* stop_light_detected is false.
C6_StopFlagCleared ==
  ( /\ path = "held"
    /\ inp.standstill
    /\ status_value \in OverrideCodes )
  => ~stop_light_detected

\* the stop window still meets the threshold: the flag was set by the detector
\* and cleared by the held cycle
C6_Witness ==
  /\ path = "held"
  /\ inp.standstill
  /\ status_value \in OverrideCodes
  /\ ~stop_light_detected
  /\ avg_meets(stop_light_mac, THRESHOLD)

\* C7: a cycle that reads a reserved code or runs at standstill leaves both
\* windows, curve_detected, slow_lead_detected and the store as they were.
C7_HeldFrame ==
  [][ ( /\ CycleRan(path')
        /\ \/ read_status(inp', store) \in OverrideCodes
           \/ inp'.standstill )
      => UNCHANGED <<curvature_mac, stop_light_mac, curve_detected,
                     slow_lead_detected, store>> ]_vars

C7_Witness ==
  /\ path = "held"
  /\ inp.standstill
  /\ status_value \notin OverrideCodes
  /\ Len(curvature_mac) = WindowSize
  /\ stop_light_mac # mac_empty

\* C8 as claimed: after a cycle that reads a reserved code 1..6 the stop
\* detector's history buffer and sample count are back in the empty initial
\* state.
C8_Original ==
  (path = "held" /\ status_value \in OverrideCodes)
  => (stop_light_mac = mac_empty /\ Len(stop_light_mac) = 0)

\* C8 amended: a cycle that reads a reserved code forces only the latched flag
\* stop_light_detected to false; the stop detector's history buffer and sample
\* count are left exactly as they were.
C8_Amended ==
  [][ (path' = "held" /\ status_value' \in OverrideCodes)
      => ( /\ ~stop_light_detected'
           /\ stop_light_mac' = stop_light_mac
           /\ Len(stop_light_mac') = Len(stop_light_mac) ) ]_vars

\* held while moving, with samples still in the stop window
C8_Witness ==
  /\ path = "held"
  /\ ~inp.standstill
  /\ status_value \in OverrideCodes
  /\ ~stop_light_detected
  /\ Len(stop_light_mac) = WindowSize
  /\ mac_sum(stop_light_mac) = WindowSize

\* the window after one more sample v: the oldest is dropped once it is full
C9_Pushed(old, new, v) ==
  /\ Len(new) = (IF Len(old) = WindowSize THEN WindowSize ELSE Len(old) + 1)
  /\ new[Len(new)] = v
  /\ \A k \in 1 .. Len(new) - 1 :
       new[k] = old[IF Len(old) = WindowSize THEN k + 1 ELSE k]

\* C9: in a normal-path cycle in which curve_detected, as recomputed in that
\* cycle, is true or a lead is tracked, the stop window is reset to empty, no
\* sample is added and stop_light_detected is false; otherwise exactly one
\* sample (model_stopped or model_length < v_ego * stop time) is added.
C9_StopGate ==
  [][ path' = "normal" =>
        IF curve_detected' \/ inp'.tracking_lead
        THEN stop_light_mac' = mac_empty /\ ~stop_light_detected'
        ELSE C9_Pushed(stop_light_mac, stop_light_mac',
               inp'.model_stopped
                 \/ inp'.model_length
                      < inp'.v_ego * inp'.conditional_model_stop_time) ]_vars

\* a stop sample offered on a detected curve with no lead: not added
C9_Witness ==
  /\ path = "normal"
  /\ curve_detected /\ ~inp.tracking_lead
  /\ inp.model_stopped
  /\ stop_light_mac = mac_empty
  /\ ~stop_light_detected

\* a flag is set by every computed average that meets the threshold
C10_SetOnAverage ==
  path' = "normal" =>
    /\ avg_meets(curvature_mac', THRESHOLD) => curve_detected'
    /\ (~curve_detected' /\ ~inp'.tracking_lead
          /\ avg_meets(stop_light_mac', THRESHOLD)) => stop_light_detected'

\* C10 as claimed: for both detectors the flag becomes true on the next
\* computed average that meets THRESHOLD and, once true, stays true until the
\* window average is below THRESHOLD.
C10_Original ==
  [][ /\ C10_SetOnAverage
      /\ (curve_detected /\ ~curve_detected')
           => ~avg_meets(curvature_mac', THRESHOLD)
      /\ (stop_light_detected /\ ~stop_light_detected')
           => ~avg_meets(stop_light_mac', THRESHOLD) ]_vars

\* C10 amended: the flag becomes true on the next computed average that meets
\* THRESHOLD; curve_detected stays true until false samples have rolled its
\* average below THRESHOLD; stop_light_detected stays true until its average
\* is below THRESHOLD (false samples, or the reset of its window on a curve or
\* a tracked lead) or until a cycle that reads a reserved code 1..6 clears it
\* with the window unchanged.
C10_Amended ==
  [][ /\ C10_SetOnAverage
      /\ (curve_detected /\ ~curve_detected')
           => ( /\ path' = "normal"
                /\ ~avg_meets(curvature_mac', THRESHOLD)
                /\ ~curvature_mac'[Len(curvature_mac')] )
      /\ (stop_light_detected /\ ~stop_light_detected')
           => \/ /\ path' = "normal"
                 /\ ~avg_meets(stop_light_mac', THRESHOLD)
              \/ /\ path' = "held"
                 /\ status_value' \in OverrideCodes
                 /\ stop_light_mac' = stop_light_mac ]_vars

\* the curve flag still set after a false sample has entered a full window
C10_Witness ==
  /\ path = "normal"
  /\ curve_detected
  /\ Len(curvature_mac) = WindowSize
  /\ ~curvature_mac[WindowSize]

----------------------------------------------------------------------------
(* A road curvature of exactly zero.  Line 75 divides by it: with a Python
   float the division raises ZeroDivisionError and update() is left at that
   line; with a numpy float it yields inf, which is below no speed (this is
   what sqrt_bound_below gives for <<0, d>>).  Both outcomes are steps. *)

ZeroInputs ==
  { [Quiet EXCEPT !.road_curvature = <<0, 1>>,
                  !.model_stopped = s, !.slc_experimental_mode = c]
    : s \in BOOLEAN, c \in BOOLEAN }

\* line 75: 1 / self.frogpilot_planner.road_curvature raises
curve_fault(i) == i.road_curvature[1] = 0

\* update() left by the exception: only self.status_value (lines 20-23) was
\* assigned
update_fault(i) ==
  LET sv == read_status(i, store) IN
  /\ normal_path(sv, i.standstill)
  /\ curve_fault(i)
  /\ status_value' = sv
  /\ inp' = i
  /\ path' = "fault"
  /\ UNCHANGED <<store, curvature_mac, stop_light_mac, curve_detected,
                 experimental_mode, stop_light_detected, slow_lead_detected,
                 THRESHOLD>>

UpdateZero ==
  \E i \in NoPress \cup Stopped \cup ZeroInputs : update(i) /\ UNCHANGED aux

UpdateFault == \E i \in ZeroInputs : update_fault(i) /\ UNCHANGED aux

NextZero == UpdateZero \/ UpdateFault \/ ExternalWrite

SpecZero == Init /\ [][NextZero]_vars

\* C11: a cycle on the normal path with a road curvature of exactly zero
\* completes without a fault, feeds a "no curve" sample and writes the status.
C11_ZeroGuarded ==
  ( /\ path \in {"normal", "fault"}
    /\ inp.road_curvature[1] = 0 )
  => ( /\ path = "normal"
       /\ ~curvature_mac[Len(curvature_mac)]
       /\ store = (IF experimental_mode THEN status_value ELSE 0) )

\* C12 as stated: after an update cycle the store holds one code in 0..17 and
\* a stored 0 means the decision is false.
C12_Original ==
  CycleRan(path) => (store \in 0 .. 17 /\ (store = 0 => ~experimental_mode))

\* C12: after an update cycle the store holds one code in 0..17; after a
\* normal-path cycle the stored code is 0 exactly when the decision is false;
\* a stored 0 with a true decision occurs only after a standstill cycle that
\* retained the decision and left the store alone.
C12_Amended ==
  /\ store \in 0 .. 17
  /\ path = "normal" => (store = 0 <=> ~experimental_mode)
  /\ (CycleRan(path) /\ store = 0 /\ experimental_mode)
       => (path = "held" /\ inp.standstill)

C12_Witness ==
  /\ path = "held"
  /\ inp.standstill
  /\ store = 0
  /\ experimental_mode

\* C13: when the navigation rule is the first rule that matches, the code is
\* 10 whenever approachingIntersection is true (approachingTurn true or not)
\* and 11 only when approachingTurn is true and approachingIntersection false.
C13_IntersectionWins ==
  (path = "eval" /\ C1_Satisfied # {} /\ C1_First = 3)
  => /\ status_value \in {10, 11}
     /\ inp.approachingIntersection => status_value = 10
     /\ status_value = 11
          => (inp.approachingTurn /\ ~inp.approachingIntersection)

C13_Witness ==
  /\ path = "eval"
  /\ C1_Satisfied # {} /\ C1_First = 3
  /\ inp.approachingIntersection /\ inp.approachingTurn
  /\ experimental_mode /\ status_value = 10

----------------------------------------------------------------------------
(* The curve detector through a bend: speeds and curvatures on both sides of
   the two bounds of lines 75-76, with standstill cycles and overrides in
   between.  quiet_run counts the normal-path cycles in a row, starting with
   curve_detected true, in which the looser bound was false. *)

\* <<v_ego, road_curvature>>: straight, only the looser bound, both bounds
CurveMotions == {<<10, <<1, 400>>>>, <<10, <<1, 100>>>>, <<10, <<1, 50>>>>}

CurveInputs ==
  { [Quiet EXCEPT !.v_ego = m[1], !.road_curvature = m[2]] : m \in CurveMotions }
  \cup Stopped

\* line 76, first operand: (0.9 / road_curvature)**0.5 < v_ego
curve_active_bound(i) == sqrt_bound_below(9, 10, i.road_curvature, i.v_ego)

quiet_run_after(i) ==
  IF /\ normal_path(read_status(i, store), i.standstill)
     /\ ~curve_active_bound(i)
     /\ (curve_detected \/ quiet_run > 0)
  THEN (IF quiet_run < WindowSize THEN quiet_run + 1 ELSE WindowSize)
  ELSE 0

UpdateCurve ==
  \E i \in CurveInputs :
    /\ update(i)
    /\ quiet_run' = quiet_run_after(i)
    /\ UNCHANGED twin

NextCurve == UpdateCurve \/ ExternalWrite

SpecCurve == Init /\ [][NextCurve]_vars

\* C14: in every normal-path cycle the sample fed to the curve smoother is
\* true iff v_ego exceeds sqrt(1/curvature), or v_ego exceeds
\* sqrt(0.9/curvature) and curve_detected was true before the cycle; with the
\* flag false a speed meeting only the looser bound gives a false sample.
C14_CurveSample ==
  [][ path' = "normal" =>
        LET v == inp'.v_ego
            num == inp'.road_curvature[1]
            den == inp'.road_curvature[2]
            strict == v > 0 /\ den < num * v * v
            looser == v > 0 /\ 9 * den < 10 * num * v * v
            fed == curvature_mac'[Len(curvature_mac')]
        IN  /\ fed <=> (strict \/ (looser /\ curve_detected))
            /\ (~curve_detected /\ looser /\ ~strict) => ~fed ]_vars

\* a looser-only speed with the flag set fed a true sample
C14_Witness ==
  /\ path = "normal"
  /\ inp.road_curvature = <<1, 100>>
  /\ curve_active_bound(inp)
  /\ ~sqrt_bound_below(1, 1, inp.road_curvature, inp.v_ego)
  /\ curvature_mac[Len(curvature_mac)]

\* C15: no step clears the curve smoother (its window only takes samples in),
\* and when curve_detected is true and the next WindowSize cycles are all
\* normal-path cycles with the looser bound false, curve_detected is false at
\* the end of them.
C15_CurveDecays ==
  [][ /\ \/ curvature_mac' = curvature_mac
         \/ \E b \in BOOLEAN : curvature_mac' = add_data(curvature_mac, b)
      /\ quiet_run' = WindowSize => ~curve_detected' ]_vars

C15_Witness ==
  /\ path = "normal"
  /\ quiet_run = WindowSize
  /\ ~curve_detected
  /\ mac_sum(curvature_mac) = 0

----------------------------------------------------------------------------
(* The slow-lead detector: every combination of a tracked lead, the planner's
   slower_lead, a stopped or moving lead and the two lead toggles, with
   standstill cycles and overrides in between *)

LeadSpeeds == {0, 20}

LeadInputs ==
  { [Quiet EXCEPT !.tracking_lead = t, !.following_lead = t,
                  !.slower_lead = s, !.v_lead = w,
                  !.conditional_slower_lead = a,
                  !.conditional_stopped_lead = b]
    : t \in BOOLEAN, s \in BOOLEAN, w \in LeadSpeeds,
      a \in BOOLEAN, b \in BOOLEAN }
  \cup Stopped

UpdateLead == \E i \in LeadInputs : update(i) /\ UNCHANGED aux

NextLead == UpdateLead \/ ExternalWrite

SpecLead == Init /\ [][NextLead]_vars

\* C16: after every normal-path cycle slow_lead_detected equals tracking_lead
\* and ((slower_lead and conditional_slower_lead) or (conditional_stopped_lead
\* and v_lead < 1)) of that cycle's inputs alone; with no lead tracked it is
\* false; when rule 5 is the first rule to match the code is 13 if v_lead < 1
\* and 14 otherwise.
C16_SlowLeadStateless ==
  path = "normal" =>
    /\ slow_lead_detected <=>
         ( /\ inp.tracking_lead
           /\ \/ inp.slower_lead /\ inp.conditional_slower_lead
              \/ inp.conditional_stopped_lead /\ inp.v_lead < 1 )
    /\ ~inp.tracking_lead => ~slow_lead_detected
    /\ (C1_Satisfied # {} /\ C1_First = 5)
         => status_value = (IF inp.v_lead < 1 THEN 13 ELSE 14)

\* a stopped lead with only the stopped-lead toggle on
C16_Witness ==
  /\ path = "normal"
  /\ inp.tracking_lead /\ inp.v_lead < 1
  /\ inp.conditional_stopped_lead /\ ~inp.conditional_slower_lead
  /\ slow_lead_detected
  /\ experimental_mode /\ status_value = 13 /\ store = 13

\* C17: update() never writes a code 1..6 to the store and does not write the
\* store in a cycle that read a code 1..6; so with experimental_mode_via_press
\* enabled a stored code 1..6 survives every update() cycle; a code 7..17 read
\* back is not an override: a moving cycle evaluates normally, a standstill
\* cycle neither derives the decision from it nor clears the stop flag.
C17_ReservedPersists ==
  [][ CycleRan(path') =>
        LET read == IF inp'.experimental_mode_via_press THEN store ELSE 0
        IN  /\ store' # store => store' \notin 1 .. 6
            /\ read \in 1 .. 6 => store' = store
            /\ (inp'.experimental_mode_via_press /\ store \in 1 .. 6)
                 => store' = store
            /\ (read \in 7 .. 17 /\ ~inp'.standstill) => path' = "normal"
            /\ (read \in 7 .. 17 /\ inp'.standstill)
                 => /\ experimental_mode' = experimental_mode
                    /\ stop_light_detected' = stop_light_detected ]_vars

\* a code written by update() was read back and the cycle evaluated normally
C17_Witness ==
  /\ path = "normal"
  /\ inp.experimental_mode_via_press
  /\ status_value \in 7 .. 17
  /\ ~experimental_mode /\ store = 0

\* C18: after an update() cycle stop_light_detected and curve_detected are
\* never both true, and a status of 15 or 16 is written only in a cycle in
\* which no lead is tracked, curve_detected is false and slow_lead_detected is
\* false.
C18_StopExcludesCurve ==
  CycleRan(path) =>
    /\ ~(stop_light_detected /\ curve_detected)
    /\ (path = "normal" /\ store \in {15, 16})
         => /\ ~inp.tracking_lead
            /\ ~curve_detected
            /\ ~slow_lead_detected

\* a stop written while the curve window still holds a curve sample
C18_Witness ==
  /\ path = "normal"
  /\ store \in {15, 16}
  /\ stop_light_detected
  /\ mac_sum(curvature_mac) > 0

\* each flag against the average of its window
C19_Agree ==
  /\ curve_detected <=> avg_meets(curvature_mac, THRESHOLD)
  /\ stop_light_detected => avg_meets(stop_light_mac, THRESHOLD)

\* C19: between update() cycles curve_detected is true iff the average of the
\* curve window is at least THRESHOLD, and stop_light_detected true implies the
\* average of the stop window is at least THRESHOLD; the stop flag is false
\* with that average still at least THRESHOLD only once a cycle that read a
\* code 1..6 has cleared it.
C19_FlagsFollowAverage ==
  [][ /\ C19_Agree /\ C19_Agree'
      /\ (~stop_light_detected' /\ avg_meets(stop_light_mac', THRESHOLD))
           => \/ path' = "held" /\ status_value' \in 1 .. 6
              \/ /\ ~stop_light_detected
                 /\ avg_meets(stop_light_mac, THRESHOLD)
                 /\ stop_light_mac' = stop_light_mac ]_vars

\* the cleared flag outlives the override: a later standstill cycle without a
\* reserved code
C19_Witness ==
  /\ path = "held"
  /\ inp.standstill
  /\ status_value = 0
  /\ ~stop_light_detected
  /\ avg_meets(stop_light_mac, THRESHOLD)
  /\ ~curve_detected

----------------------------------------------------------------------------
(* Two controllers, each with a store of its own, given the same arguments in
   every cycle while other processes write any codes to the two stores.  The
   second controller is the record twin; manual activation via press is
   disabled in every input. *)

\* one update() call with arguments i on the controller t
update_twin(t, i) ==
  LET sv == read_status(i, t.store) IN
  IF normal_path(sv, i.standstill)
  THEN LET d == update_conditions(i, t.curvature_mac, t.curve_detected,
                                  t.stop_light_mac, THRESHOLD)
           r == check_conditions(i, d.curve_detected, d.slow_lead_detected,
                                 d.stop_light_detected, sv)
       IN  [store |-> status_written(r.result, r.status_value),
            curvature_mac |-> d.curvature_mac,
            stop_light_mac |-> d.stop_light_mac,
            curve_detected |-> d.curve_detected,
            experimental_mode |-> r.result,
            stop_light_detected |-> d.stop_light_detected,
            slow_lead_detected |-> d.slow_lead_detected]
  ELSE [t EXCEPT
          !.experimental_mode =
             held_experimental_mode(sv, i.standstill, t.experimental_mode),
          !.stop_light_detected =
             held_stop_light_detected(sv, t.stop_light_detected)]

\* the codes other processes write here: 0, and one reserved code of each
\* kind lines 25 and 30 tell apart (odd: mode off, even: mode on)
TwinCodes == {0, 1, 2}

TwinInputs ==
  { [i EXCEPT !.experimental_mode_via_press = FALSE] : i \in Inputs }

InitTwin ==
  /\ store \in TwinCodes
  /\ status_value = 0
  /\ curvature_mac = mac_empty
  /\ stop_light_mac = mac_empty
  /\ curve_detected = FALSE
  /\ experimental_mode = FALSE
  /\ stop_light_detected = FALSE
  /\ slow_lead_detected = FALSE
  /\ THRESHOLD \in Thresholds
  /\ inp = Quiet
  /\ path = "init"
  /\ quiet_run = 0
  /\ twin \in { Constructed(c) : c \in TwinCodes }

UpdateTwin ==
  \E i \in TwinInputs :
    /\ update(i)
    /\ twin' = update_twin(twin, i)
    /\ UNCHANGED quiet_run

\* other processes put codes in the two stores between two cycles
ExternalWriteTwin ==
  \E c \in TwinCodes, e \in TwinCodes :
    /\ path # "extern"
    /\ <<c, e>> # <<store, twin.store>>
    /\ store' = c
    /\ twin' = [twin EXCEPT !.store = e]
    /\ path' = "extern"
    /\ UNCHANGED <<status_value, curvature_mac, stop_light_mac, curve_detected,
                   experimental_mode, stop_light_detected, slow_lead_detected,
                   THRESHOLD, inp, quiet_run>>

NextTwin == UpdateTwin \/ ExternalWriteTwin

SpecTwin == InitTwin /\ [][NextTwin]_vars

\* C20: with experimental_mode_via_press disabled, two runs of update() given
\* the same inputs but different store contents agree after every cycle on
\* the decision, on the three detector flags and on the status written.
C20_StoreOutputOnly ==
  CycleRan(path) =>
    /\ experimental_mode = twin.experimental_mode
    /\ curve_detected = twin.curve_detected
    /\ slow_lead_detected = twin.slow_lead_detected
    /\ stop_light_detected = twin.stop_light_detected
    /\ path = "normal" => store = twin.store
    /\ path = "normal" <=> ~inp.standstill

\* a standstill cycle over two different reserved codes kept the same decision
\* and the same stop flag in both controllers
C20_Witness ==
  /\ path = "held"
  /\ inp.standstill
  /\ store \in {1, 3, 5}
  /\ twin.store \in {2, 4, 6}
  /\ experimental_mode /\ twin.experimental_mode
  /\ stop_light_detected /\ twin.stop_light_detected

====
